---- MODULE Spec2Model ----
(***************************************************************************)
(* Model of scripts/deduplicate_docs.py: the documentation deduplication   *)
(* engine (find_duplicate_files, get_relative_path, update_file_references,*)
(* deduplicate_files, main).                                               *)
(*                                                                         *)
(* A file name is a tuple of characters, a path is a tuple of names below  *)
(* the deploy directory, a file's content is a record of its opaque bytes  *)
(* (body) and the reference tokens it holds (toks).  The content digest is *)
(* the content itself: SHA-256 is modelled as collision free.              *)
(* A removal or a read that fails leaves the file as it was; a copy or a   *)
(* rewrite that fails while it writes leaves its destination truncated     *)
(* and partly written.                                                     *)
(***************************************************************************)
EXTENDS Integers, Sequences, FiniteSets, TLC

VARIABLES
    fs,          \* the tree: path -> content, NoFile where there is no file
    pc,          \* where the run is
    run,         \* the number of the run
    faults,      \* filesystem failures so far
    duplicates,  \* the result of find_duplicate_files: a sequence of groups
    gi,          \* the group the loop of line 111 is at
    mi,          \* the member the loop of line 163 is at
    refFiles,    \* all_html_css_js_files
    fileSize,    \* file_size
    stats,       \* deduplication_stats
    \* what the run has done so far, kept to state the properties
    start,       \* the tree the run started from
    removed,     \* [g, path]: the files os.remove removed
    copied,      \* [g, shared, content]: the copies to shared/ that completed
    rewrote,     \* [g, member, file, new]: the files update_file_references changed
    aborted,     \* the groups given up by the handler of line 182
    rmfailed,    \* [g, path]: the files os.remove failed to remove
    rwfailed,    \* [g, member, file]: the files update_file_references failed on
    prev,        \* the same of the previous run
    unread,      \* the files whose read failed in the scan of the run
    call,        \* the last call of update_file_references made on its own
    firmware,    \* the file lpcvtcksum is given
    \* what main was started on
    root,        \* what deploy_dir designates: "dir", "file" or "absent"
    shared_dir   \* whether the directory <deploy_dir>/shared exists

vars == <<fs, pc, run, faults, duplicates, gi, mi, refFiles, fileSize, stats,
          start, removed, copied, rewrote, aborted, rmfailed, rwfailed, prev,
          unread, call, firmware, root, shared_dir>>

ghost == <<start, removed, copied, rewrote, aborted, rmfailed, rwfailed, prev>>

(***************************************************************************)
(* Bounds of the model.                                                    *)
(***************************************************************************)
MaxFiles == 4
MaxFaults == 1
MaxRuns == 2
MaxText == 5

(***************************************************************************)
(* Characters, names and paths.                                            *)
(***************************************************************************)
DeployDir == <<"/", "d">>
Sep == "/"

N_shared == <<"s", "h", "a", "r", "e", "d">>
N_t1 == <<"t", "1">>
N_t12 == <<"t", "1", "2">>
N_s == <<"s">>
N_acss == <<"a", ".", "c", "s", "s">>
N_Acss == <<"A", ".", "c", "s", "s">>
N_phtml == <<"p", ".", "h", "t", "m", "l">>
N_index == <<"i", "n", "d", "e", "x", ".", "h", "t", "m", "l">>
N_Searchjs == <<"S", "e", "a", "r", "c", "h", ".", "j", "s">>
N_ntxt == <<"n", ".", "t", "x", "t">>
N_mJS == <<"m", ".", "J", "S">>
N_dot == <<".">>
N_dotdot == <<".", ".">>

Upper == <<"A", "B", "C", "D", "E", "F", "G", "H", "I", "J", "K", "L", "M",
           "N", "O", "P", "Q", "R", "S", "T", "U", "V", "W", "X", "Y", "Z">>
LowerOf == <<"a", "b", "c", "d", "e", "f", "g", "h", "i", "j", "k", "l", "m",
             "n", "o", "p", "q", "r", "s", "t", "u", "v", "w", "x", "y", "z">>

LowerChar(c) ==
    IF \E i \in DOMAIN Upper : Upper[i] = c
    THEN LowerOf[CHOOSE i \in DOMAIN Upper : Upper[i] = c]
    ELSE c

\* str.lower()
Lower(s) == [i \in DOMAIN s |-> LowerChar(s[i])]

\* sub in s, for strings
Contains(s, sub) ==
    \E i \in 0..(Len(s) - Len(sub)) : SubSeq(s, i + 1, i + Len(sub)) = sub

\* s.endswith(suf)
EndsWith(s, suf) ==
    /\ Len(suf) <= Len(s)
    /\ SubSeq(s, Len(s) - Len(suf) + 1, Len(s)) = suf

\* os.path.basename / os.path.dirname of a path below the deploy directory
Basename(p) == p[Len(p)]
Dirname(p) == SubSeq(p, 1, Len(p) - 1)

RECURSIVE JoinNames(_)
JoinNames(p) ==
    IF p = <<>> THEN <<>>
    ELSE <<Sep>> \o p[1] \o JoinNames(Tail(p))

\* os.path.join(root, file): the absolute path string of a path
PathStr(p) == DeployDir \o JoinNames(p)

IsPrefix(d, p) == Len(d) <= Len(p) /\ SubSeq(p, 1, Len(d)) = d

(***************************************************************************)
(* Contents.                                                               *)
(***************************************************************************)
NoFile == [absent |-> TRUE]

Exists(f, p) == f[p] # NoFile

\* A reference token: an attribute keyword (or none), an opening quote, the
\* path as written (a tuple of names, read as joined by "/"), a closing quote.
Tok(kw, open, ref, close) == [kw |-> kw, open |-> open, ref |-> ref, close |-> close]

KwHref == <<"h", "r", "e", "f">>
KwSrc == <<"s", "r", "c">>
KwUrl == <<"u", "r", "l">>
DQ == "\""
SQ == "'"
NoQuote == ""
Quotes == {DQ, SQ}

RECURSIVE TextLen(_)
TextLen(ref) ==
    IF ref = <<>> THEN 0
    ELSE Len(ref[1]) + (IF Len(ref) > 1 THEN 1 ELSE 0) + TextLen(Tail(ref))

RECURSIVE ToksLen(_)
\* The bytes of the tokens of a file. A token holds its keyword, the equals
\* sign of an attribute or the two parentheses of url(...), its quote marks
\* where it has them, and its reference; a bare string has no keyword.
ToksLen(toks) ==
    IF toks = <<>> THEN 0
    ELSE LET t == toks[1]
             quoted == (IF t.open = NoQuote THEN 0 ELSE 1) + TextLen(t.ref)
                       + (IF t.close = NoQuote THEN 0 ELSE 1)
             TokLen == IF t.kw = <<>> THEN quoted
                       ELSE IF Lower(t.kw) = KwUrl
                            THEN Len(t.kw) + 1 + quoted + 1
                            ELSE Len(t.kw) + 1 + quoted
         IN  TokLen + ToksLen(Tail(toks))

\* os.path.getsize: the bytes of the body and of the tokens.
Size(c) == Len(c.body) + ToksLen(c.toks)


(***************************************************************************)
(* get_relative_path and the resolution of a reference.                    *)
(***************************************************************************)
RECURSIVE CommonLen(_, _)
CommonLen(a, b) ==
    IF a # <<>> /\ b # <<>> /\ a[1] = b[1]
    THEN 1 + CommonLen(Tail(a), Tail(b))
    ELSE 0

\* os.path.relpath(to_file, from_dir), both below the deploy directory
RelPath(to_file, from_dir) ==
    LET i == CommonLen(from_dir, to_file)
        rel == [k \in 1..(Len(from_dir) - i) |-> N_dotdot]
               \o SubSeq(to_file, i + 1, Len(to_file))
    IN  IF rel = <<>> THEN <<N_dot>> ELSE rel

get_relative_path(from_file, to_file) == RelPath(to_file, Dirname(from_file))

RECURSIVE Norm(_, _)
Norm(acc, rest) ==
    IF rest = <<>> THEN acc
    ELSE IF rest[1] = N_dot THEN Norm(acc, Tail(rest))
    ELSE IF rest[1] = N_dotdot /\ acc # <<>> /\ acc[Len(acc)] # N_dotdot
         THEN Norm(SubSeq(acc, 1, Len(acc) - 1), Tail(rest))
    ELSE Norm(Append(acc, rest[1]), Tail(rest))

\* The file a reference written in a file of directory dir designates.
Resolve(dir, ref) == Norm(<<>>, dir \o ref)

(***************************************************************************)
(* update_file_references.                                                 *)
(***************************************************************************)
RECURSIVE RefText(_)
RefText(ref) ==
    IF ref = <<>> THEN <<>>
    ELSE IF Len(ref) = 1 THEN ref[1]
    ELSE ref[1] \o <<Sep>> \o RefText(Tail(ref))

\* re.escape(old_ref) under re.IGNORECASE
SameText(ref, old_ref) == Lower(RefText(ref)) = Lower(old_ref)

\* ((?:src|href)\s*=\s*["'])old(["'])
MatchesAttr(t, old_ref) ==
    /\ Lower(t.kw) \in {KwSrc, KwHref}
    /\ t.open \in Quotes /\ t.close \in Quotes
    /\ SameText(t.ref, old_ref)

\* (url\s*\(\s*["']?)old(["']?\s*\))
MatchesUrl(t, old_ref) ==
    /\ Lower(t.kw) = KwUrl
    /\ t.open \in Quotes \cup {NoQuote} /\ t.close \in Quotes \cup {NoQuote}
    /\ SameText(t.ref, old_ref)

\* (["'])old(["'])
MatchesString(t, old_ref) ==
    /\ t.open \in Quotes /\ t.close \in Quotes
    /\ SameText(t.ref, old_ref)

Sub(t, matches, new_ref) == IF matches THEN [t EXCEPT !.ref = new_ref] ELSE t

\* The three re.sub passes over one token, in the order of the patterns list.
SubToken(t, old_ref, new_ref) ==
    LET t1 == Sub(t, MatchesAttr(t, old_ref), new_ref)
        t2 == Sub(t1, MatchesUrl(t1, old_ref), new_ref)
    IN  Sub(t2, MatchesString(t2, old_ref), new_ref)

\* The content update_file_references computes for a file.
NewContent(c, old_ref, new_ref) ==
    [c EXCEPT !.toks = [i \in DOMAIN c.toks |-> SubToken(c.toks[i], old_ref, new_ref)]]

\* How a call can go: nothing raises; the read of lines 68-69 or the open
\* of line 87 raises; the write of line 88 raises after some of the new
\* content went to the file that line 87 truncated.
NoFailure == [raises |-> "never"]
OpenFails == [raises |-> "open"]
WriteFails(k) == [raises |-> "write", after |-> k]

\* The pieces a content is written in: its bytes, then its tokens.
Units(c) == Len(c.body) + Len(c.toks)

\* The first k pieces of a content.
Cut(c, k) ==
    IF k < Len(c.body) THEN [body |-> SubSeq(c.body, 1, k), toks |-> <<>>]
    ELSE [body |-> c.body, toks |-> SubSeq(c.toks, 1, k - Len(c.body))]

\* update_file_references(file_path, old_ref, new_ref) on filesystem f:
\* the filesystem after it; fails tells how the call goes.
update_file_references(f, file_path, old_ref, new_ref, fails) ==
    IF fails.raises = "open" \/ ~Exists(f, file_path) THEN f
    ELSE LET content == NewContent(f[file_path], old_ref, new_ref)
         IN  IF content = f[file_path] THEN f
             ELSE IF fails.raises = "write" /\ fails.after < Units(content)
                  THEN [f EXCEPT ![file_path] = Cut(content, fails.after)]
                  ELSE [f EXCEPT ![file_path] = content]

\* Its return value: True exactly when the content changed and was written.
UpdateReturns(f, file_path, old_ref, new_ref, fails) ==
    /\ Exists(f, file_path)
    /\ NewContent(f[file_path], old_ref, new_ref) # f[file_path]
    /\ \/ fails.raises = "never"
       \/ /\ fails.raises = "write"
          /\ fails.after >= Units(NewContent(f[file_path], old_ref, new_ref))


(***************************************************************************)
(* update_file_references on the text of a file.  A text is a sequence of  *)
(* lexemes (a keyword, a punctuation mark, a quote, white space, a file    *)
(* name), each a tuple of characters; re.sub scans it from the left for    *)
(* matches that do not overlap.                                            *)
(***************************************************************************)
L_eq == <<"=">>
L_lp == <<"(">>
L_rp == <<")">>
L_sp == <<" ">>
L_dq == <<DQ>>
L_sq == <<SQ>>
L_HREF == <<"H", "R", "E", "F">>
L_ACSS == <<"A", ".", "C", "S", "S">>

QuoteLexemes == {L_dq, L_sq}

\* The lexeme at position i, none past the end.
At(text, i) == IF i \in DOMAIN text THEN text[i] ELSE <<>>

RECURSIVE SkipSpace(_, _)
\* \s* from position i: the first position that holds no white space.
SkipSpace(text, i) ==
    IF At(text, i) = L_sp THEN SkipSpace(text, i + 1) ELSE i

\* re.escape(old_ref) under re.IGNORECASE, on one lexeme
IsOld(x, old_ref) == x # <<>> /\ Lower(x) = Lower(old_ref)

NoMatch == [len |-> 0, at |-> 0]

\* ((?:src|href)\s*=\s*["'])old(["']) at position i: the length of the
\* match and the position of old in it.
match_attr(text, i, old_ref) ==
    LET j == SkipSpace(text, i + 1)
        k == SkipSpace(text, j + 1)
    IN  IF /\ At(text, j) = L_eq
           /\ At(text, k) \in QuoteLexemes
           /\ At(text, k + 2) \in QuoteLexemes
           /\ Lower(At(text, i)) \in {KwSrc, KwHref}
           /\ IsOld(At(text, k + 1), old_ref)
        THEN [len |-> k + 3 - i, at |-> k + 1]
        ELSE NoMatch

\* (url\s*\(\s*["']?)old(["']?\s*\)) at position i
match_url(text, i, old_ref) ==
    LET j == SkipSpace(text, i + 1)
        k == SkipSpace(text, j + 1)
        o == IF At(text, k) \in QuoteLexemes THEN k + 1 ELSE k
        c == IF At(text, o + 1) \in QuoteLexemes THEN o + 2 ELSE o + 1
        e == SkipSpace(text, c)
    IN  IF /\ At(text, j) = L_lp
           /\ At(text, e) = L_rp
           /\ Lower(At(text, i)) = KwUrl
           /\ IsOld(At(text, o), old_ref)
        THEN [len |-> e + 1 - i, at |-> o]
        ELSE NoMatch

\* (["'])old(["']) at position i
match_string(text, i, old_ref) ==
    IF /\ At(text, i) \in QuoteLexemes
       /\ At(text, i + 2) \in QuoteLexemes
       /\ IsOld(At(text, i + 1), old_ref)
    THEN [len |-> 3, at |-> i + 1]
    ELSE NoMatch

\* The match of pattern k of the patterns list at position i.
match(k, text, i, old_ref) ==
    IF k = 1 THEN match_attr(text, i, old_ref)
    ELSE IF k = 2 THEN match_url(text, i, old_ref)
    ELSE match_string(text, i, old_ref)

RECURSIVE re_sub(_, _, _, _, _)
\* re.sub(pattern k, r'\1' + new_ref + r'\2', content) from position i on:
\* a match is replaced by itself with new_ref in the place of old_ref, and
\* the scan resumes after the match.
re_sub(k, text, i, old_ref, new_ref) ==
    IF i > Len(text) THEN <<>>
    ELSE LET m == match(k, text, i, old_ref)
         IN  IF m.len = 0
             THEN <<text[i]>> \o re_sub(k, text, i + 1, old_ref, new_ref)
             ELSE SubSeq(text, i, m.at - 1) \o <<RefText(new_ref)>>
                  \o SubSeq(text, m.at + 1, i + m.len - 1)
                  \o re_sub(k, text, i + m.len, old_ref, new_ref)

\* Lines 81-83: the three substitutions, one after the other.
SubText(text, old_ref, new_ref) ==
    LET c1 == re_sub(1, text, 1, old_ref, new_ref)
        c2 == re_sub(2, c1, 1, old_ref, new_ref)
    IN  re_sub(3, c2, 1, old_ref, new_ref)

\* update_file_references on a file that holds a text: the filesystem after.
update_text(f, file_path, old_ref, new_ref) ==
    [f EXCEPT ![file_path] = [text |-> SubText(f[file_path].text, old_ref, new_ref)]]

(***************************************************************************)
(* The trees a run may start from.                                         *)
(***************************************************************************)
D_shared == <<N_shared>>
D_t1 == <<N_t1>>
D_t12 == <<N_t12>>
D_t1s == <<N_t1, N_s>>

CssDirs == {D_shared, D_t1, D_t12, D_t1s}
HtmlDirs == {D_t1, D_t12, D_t1s}

PathU ==
    {Append(d, N_acss) : d \in CssDirs} \cup {Append(d, N_phtml) : d \in HtmlDirs}
    \cup {Append(D_t12, N_Acss)}

\* Trees with files the policy excludes: index.html, and Search.js, which
\* holds a pattern once lowered.
PathExcl ==
    {Append(d, n) : d \in {D_t1, D_t12}, n \in {N_index, N_Searchjs}}
    \cup {Append(d, N_acss) : d \in {D_shared, D_t1, D_t12}}

\* Trees with files of other extensions: n.txt and m.JS.
PathExt ==
    {Append(d, N_ntxt) : d \in {D_t1, D_t12}}
    \cup {Append(D_t1, N_mJS), Append(D_t1, N_phtml)}
    \cup {Append(d, N_acss) : d \in {D_shared, D_t1, D_t12}}

\* Every path a run can read or write: the tree's and those below shared/.
AllPaths ==
    LET U == PathU \cup PathExcl \cup PathExt
    IN  U \cup {<<N_shared, Basename(p)>> : p \in U}

CX == [body |-> <<1>>, toks |-> <<>>]
CY == [body |-> <<2>>, toks |-> <<>>]
HRef(ref) == [body |-> <<3>>, toks |-> <<Tok(KwHref, DQ, ref, DQ)>>]
H_bare == HRef(<<N_acss>>)
H_dot == HRef(<<N_dot, N_acss>>)
H_sh == HRef(<<N_dotdot, N_shared, N_acss>>)

ContentsFor(p) ==
    IF Basename(p) = N_acss THEN {CX, CY}
    ELSE IF Basename(p) = N_Acss THEN {CX}
    ELSE IF Basename(p) = N_Searchjs THEN {CY}
    ELSE IF Basename(p) \in {N_index, N_ntxt, N_mJS} THEN {H_bare}
    ELSE {H_bare, H_dot, H_sh}

AllContents == {CX, CY, H_bare, H_dot, H_sh}

TreesOn(S) ==
    {[p \in AllPaths |-> IF p \in S THEN g[p] ELSE NoFile] :
        g \in {h \in [S -> AllContents] : \A p \in S : h[p] \in ContentsFor(p)}}

TreesExcl == UNION {TreesOn(S) : S \in {T \in SUBSET PathExcl : Cardinality(T) <= MaxFiles}}

TreesExt == UNION {TreesOn(S) : S \in {T \in SUBSET PathExt : Cardinality(T) <= MaxFiles}}

Trees == UNION {TreesOn(S) : S \in {T \in SUBSET PathU : Cardinality(T) <= MaxFiles}}

Files(f) == {p \in AllPaths : Exists(f, p)}

(***************************************************************************)
(* os.walk and find_duplicate_files.                                       *)
(***************************************************************************)
RECURSIVE Orders(_)
\* Every listing of the elements of S: the order of a directory's entries.
Orders(S) ==
    IF S = {} THEN {<<>>}
    ELSE UNION {{<<x>> \o o : o \in Orders(S \ {x})} : x \in S}

RECURSIVE Walk(_, _)
RECURSIVE WalkEach(_, _)
\* os.walk(top) over the files S, top down: the files of top in the order of
\* its listing, then the walk of each of its subdirectories in that order.
Walk(top, S) ==
    LET files == {p \in S : Dirname(p) = top}
        dirs == {SubSeq(p, 1, Len(top) + 1) : p \in {q \in S : IsPrefix(top, q)} \ files}
    IN  UNION {{a \o b : a \in Orders(files), b \in WalkEach(ds, S)} : ds \in Orders(dirs)}

WalkEach(ds, S) ==
    IF ds = <<>> THEN {<<>>}
    ELSE {a \o b : a \in Walk(ds[1], S), b \in WalkEach(Tail(ds), S)}

\* The orders in which os.walk(deploy_dir) can list the files of the tree.
WalkOrders(f) == Walk(<<>>, Files(f))

RECURSIVE UpTo(_, _)
\* The subsets of S of at most k elements: the operations that fail in a step.
UpTo(S, k) ==
    IF k <= 0 THEN {{}}
    ELSE LET less == UpTo(S, k - 1)
         IN  less \cup UNION {{T \cup {x} : x \in S} : T \in less}

\* calculate_file_hash without its handler: every file has a digest.
calculate_file_hash_Reads(f, p, unreadable) == f[p]

\* calculate_file_hash: the digest of a readable file, None of an unreadable one
calculate_file_hash(f, p, unreadable) ==
    IF p \in unreadable THEN NoFile ELSE f[p]

RECURSIVE Ascending(_)
Ascending(S) ==
    IF S = {} THEN <<>>
    ELSE LET m == CHOOSE x \in S : \A y \in S : x <= y
         IN  <<m>> \o Ascending(S \ {m})

\* find_duplicate_files without the filter of line 54: every bucket is
\* returned, the buckets of one path too.
find_duplicate_files_Unfiltered(f, o, unreadable) ==
    LET file_hash == [i \in DOMAIN o |-> calculate_file_hash(f, o[i], unreadable)]
        firsts == Ascending({i \in DOMAIN o :
                      /\ file_hash[i] # NoFile
                      /\ \A j \in 1..(i - 1) : file_hash[j] # file_hash[i]})
        bucket(i) == SelectSeq(o, LAMBDA p :
                         calculate_file_hash(f, p, unreadable) = file_hash[i])
    IN  [k \in DOMAIN firsts |-> bucket(firsts[k])]

\* find_duplicate_files: the buckets with more than one path, in the order
\* their digests were first seen, each bucket in scan order.
find_duplicate_files(f, o, unreadable) ==
    LET file_hash == [i \in DOMAIN o |-> calculate_file_hash(f, o[i], unreadable)]
        firsts == Ascending({i \in DOMAIN o :
                      /\ file_hash[i] # NoFile
                      /\ \A j \in 1..(i - 1) : file_hash[j] # file_hash[i]})
        bucket(i) == SelectSeq(o, LAMBDA p :
                         calculate_file_hash(f, p, unreadable) = file_hash[i])
        file_hashes == [k \in DOMAIN firsts |-> bucket(firsts[k])]
    IN  SelectSeq(file_hashes, LAMBDA paths : Len(paths) > 1)


(***************************************************************************)
(* deduplicate_files: the canonicalization policy.                         *)
(***************************************************************************)
P_search == <<"s", "e", "a", "r", "c", "h">>
P_navtree == <<"n", "a", "v", "t", "r", "e", "e">>
P_index == <<"i", "n", "d", "e", "x", ".", "h", "t", "m", "l">>
P_files == <<"f", "i", "l", "e", "s", ".", "h", "t", "m", "l">>
P_globals == <<"g", "l", "o", "b", "a", "l", "s", ".", "h", "t", "m", "l">>
skip_patterns == {P_search, P_navtree, P_index, P_files, P_globals}

E_html == <<".", "h", "t", "m", "l">>
E_css == <<".", "c", "s", "s">>
E_js == <<".", "j", "s">>

\* The listing of line 145 without its test.
IsTextual_Any(p) == TRUE

\* file.endswith(('.html', '.css', '.js'))
IsTextual(p) == \E e \in {E_html, E_css, E_js} : EndsWith(Basename(p), e)

\* len(set(filenames)) > 1
NamesDiffer(paths) == \E i, j \in DOMAIN paths : Basename(paths[i]) # Basename(paths[j])

\* any(pattern in filename.lower() for pattern in skip_patterns)
Excluded(filename) == \E pat \in skip_patterns : Contains(Lower(filename), pat)

\* The policy without its exclusion list.
Accepted_NoExclusion(paths) ==
    /\ Len(paths) >= 2
    /\ ~NamesDiffer(paths)

Accepted(paths) ==
    /\ Len(paths) >= 2
    /\ ~NamesDiffer(paths)
    /\ ~Excluded(Basename(paths[1]))

Canonical(paths) == paths[1]
SharedFile(paths) == <<N_shared, Basename(paths[1])>>

\* target_dir in ref_file, for every member and every file: the substring
\* test of line 158 on the two path strings.
DirInPath ==
    [target_file \in AllPaths |-> [ref_file \in AllPaths |->
        Contains(PathStr(ref_file), PathStr(Dirname(target_file)))]]

\* if target_dir in ref_file
InScope(target_file, ref_file) == DirInPath[target_file][ref_file]

ZeroStats == [files_processed |-> 0, files_deduplicated |-> 0,
              bytes_saved |-> 0, references_updated |-> 0]

NoCall == [none |-> TRUE]

NoPrev == [rmfailed |-> {}, rewrote |-> {}, copied |-> {}, aborted |-> {}]

Group == duplicates[gi]
Member == duplicates[gi][mi]

(***************************************************************************)
(* The run.                                                                *)
(***************************************************************************)
\* The state main starts in, whatever the tree.
Fresh ==
    /\ pc = "main"
    /\ run = 1
    /\ faults = 0
    /\ duplicates = <<>>
    /\ gi = 1
    /\ mi = 0
    /\ refFiles = {}
    /\ fileSize = 0
    /\ stats = ZeroStats
    /\ start = fs
    /\ removed = {}
    /\ copied = {}
    /\ rewrote = {}
    /\ aborted = {}
    /\ rmfailed = {}
    /\ rwfailed = {}
    /\ prev = NoPrev
    /\ unread = {}
    /\ call = NoCall
    /\ firmware = NoFile
    /\ root \in {"dir", "file", "absent"}
    /\ root # "dir" => Files(fs) = {}
    /\ shared_dir = (\E p \in Files(fs) : Dirname(p) = D_shared)

Init == fs \in Trees /\ Fresh

\* The runs on the trees that hold excluded names.
InitExcl == fs \in TreesExcl /\ Fresh

\* The runs on the trees that hold files of other extensions.
InitExt == fs \in TreesExt /\ Fresh

\* The files with the bytes of another file: only their being unreadable
\* changes what find_duplicate_files returns.
Twins(f) == {p \in Files(f) : \E q \in Files(f) : q # p /\ f[q] = f[p]}

\* os.path.isdir(deploy_dir) without its test.
isdir_Unchecked == TRUE

\* os.path.isdir(deploy_dir)
isdir == root = "dir"

\* Lines 196-198: deploy_dir is not a directory, main exits with status 1.
InvalidRoot ==
    /\ pc = "main"
    /\ ~isdir
    /\ pc' = "exit1"
    /\ UNCHANGED <<fs, run, faults, duplicates, gi, mi, refFiles, fileSize, stats>>
    /\ UNCHANGED ghost
    /\ UNCHANGED <<root, shared_dir, unread, call, firmware>>

\* main: find_duplicate_files, then deduplicate_files unless nothing is found;
\* deduplicate_files begins by making the directory shared/ (line 100).
Scan ==
    /\ pc = "main"
    /\ isdir
    /\ \E unreadable \in UpTo(Twins(fs), MaxFaults - faults) :
       \E o \in WalkOrders(fs) :
          /\ duplicates' = find_duplicate_files(fs, o, unreadable)
          /\ faults' = faults + Cardinality(unreadable)
          /\ unread' = unreadable
    /\ pc' = IF duplicates' = <<>> THEN "done" ELSE "group"
    /\ shared_dir' = (shared_dir \/ duplicates' # <<>>)
    /\ UNCHANGED <<root, call, firmware>>
    /\ gi' = 1
    /\ stats' = ZeroStats
    /\ UNCHANGED <<fs, run, mi, refFiles, fileSize>>
    /\ UNCHANGED ghost

\* Lines 112-126: a group the policy rejects is passed over.
SkipGroup ==
    /\ UNCHANGED <<root, shared_dir, unread, call, firmware>>
    /\ pc = "group"
    /\ gi <= Len(duplicates)
    /\ ~Accepted(Group)
    /\ gi' = gi + 1
    /\ UNCHANGED <<fs, pc, run, faults, duplicates, mi, refFiles, fileSize, stats>>
    /\ UNCHANGED ghost

\* Lines 136-146: the copy to shared/ succeeds; the textual files are listed.
CopyOK ==
    /\ UNCHANGED <<root, shared_dir, unread, call, firmware>>
    /\ pc = "group"
    /\ gi <= Len(duplicates)
    /\ Accepted(Group)
    /\ Canonical(Group) # SharedFile(Group)
    /\ fs' = [fs EXCEPT ![SharedFile(Group)] = fs[Canonical(Group)]]
    /\ fileSize' = Size(fs[Canonical(Group)])
    /\ refFiles' = {p \in Files(fs') : IsTextual(p)}
    /\ copied' = copied \cup {[g |-> gi, shared |-> SharedFile(Group),
                                content |-> fs[Canonical(Group)]]}
    /\ pc' = "rewrite"
    /\ mi' = 0
    /\ UNCHANGED <<run, faults, duplicates, gi, stats>>
    /\ UNCHANGED <<start, removed, rewrote, aborted, rmfailed, rwfailed, prev>>

\* The handler of lines 182-184: the group is given up, the loop goes on.
AbortGroup ==
    /\ UNCHANGED <<root, shared_dir, unread, call, firmware>>
    /\ aborted' = aborted \cup {gi}
    /\ gi' = gi + 1
    /\ UNCHANGED <<pc, run, duplicates, mi, refFiles, fileSize, stats>>
    /\ UNCHANGED <<start, removed, copied, rewrote, rmfailed, rwfailed, prev>>

\* What a copy that raises can leave at its destination: the beginning of
\* the source, up to all of it (the data written, the metadata not).
Written(c) ==
    {[body |-> SubSeq(c.body, 1, k), toks |-> <<>>] : k \in 0..(Len(c.body) - 1)}
        \cup {[body |-> c.body, toks |-> SubSeq(c.toks, 1, k)] : k \in 0..Len(c.toks)}

\* shutil.copy2 raises: before the destination is opened, which leaves it as
\* it was, or after, which leaves it truncated and partly or wholly written.
CopyFails ==
    /\ pc = "group"
    /\ gi <= Len(duplicates)
    /\ Accepted(Group)
    /\ Canonical(Group) # SharedFile(Group)
    /\ faults < MaxFaults
    /\ faults' = faults + 1
    /\ \E c \in {fs[SharedFile(Group)]} \cup Written(fs[Canonical(Group)]) :
           fs' = [fs EXCEPT ![SharedFile(Group)] = c]
    /\ AbortGroup

\* shutil.copy2 raises SameFileError: the canonical file is the shared file.
CopySameFile ==
    /\ pc = "group"
    /\ gi <= Len(duplicates)
    /\ Accepted(Group)
    /\ Canonical(Group) = SharedFile(Group)
    /\ UNCHANGED <<fs, faults>>
    /\ AbortGroup


RECURSIVE RewriteAll(_, _, _, _, _)
\* Lines 157-160: update_file_references on every listed file in scope;
\* failing tells how the call on each file goes.
RewriteAll(f, files, old_ref, new_ref, failing) ==
    IF files = {} THEN f
    ELSE LET p == CHOOSE x \in files : TRUE
         IN  RewriteAll(update_file_references(f, p, old_ref, new_ref, failing[p]),
                        files \ {p}, old_ref, new_ref, failing)

\* The files in which a member's pass calls update_file_references.
Scope(target_file) == {p \in refFiles : InScope(target_file, p)}

\* The number of pieces of the largest content of the trees.
MaxUnits ==
    LET sizes == {Units(c) : c \in AllContents}
    IN  CHOOSE n \in sizes : \A m \in sizes : m <= n

\* The failures an update can meet: at the open, or at the write after
\* fewer pieces than the largest content has.
Failures ==
    {OpenFails} \cup {WriteFails(k) : k \in 0..(MaxUnits - 1)}

\* How the update of file p in the pass of member i goes under F.
FailureOf(F, i, p) ==
    IF \E x \in F : x.i = i /\ x.file = p
    THEN (CHOOSE x \in F : x.i = i /\ x.file = p).fails
    ELSE NoFailure

RECURSIVE RewriteFrom(_, _, _)
\* Lines 149-160 from member i on: for each member, the files in scope are
\* rewritten to the shared file's path relative to that member.  F holds,
\* for the updates that raise, the member index, the file and the failure.
RewriteFrom(r, i, F) ==
    IF i > Len(Group) THEN r
    ELSE LET target_file == Group[i]
             old_filename == Basename(target_file)
             relative_shared_path == get_relative_path(target_file, SharedFile(Group))
             failing == [p \in Scope(target_file) |-> FailureOf(F, i, p)]
             raised == {p \in Scope(target_file) : failing[p] # NoFailure}
             changed == {p \in Scope(target_file) :
                            UpdateReturns(r.fs, p, old_filename, relative_shared_path,
                                          failing[p])}
         IN  RewriteFrom(
                [fs |-> RewriteAll(r.fs, Scope(target_file), old_filename,
                                   relative_shared_path, failing),
                 rewrote |-> r.rewrote \cup
                     {[g |-> gi, member |-> target_file, file |-> p,
                       new |-> relative_shared_path] : p \in changed},
                 rwfailed |-> r.rwfailed \cup
                     {[g |-> gi, member |-> target_file, file |-> p] : p \in raised},
                 idle |-> r.idle \cup
                     {p \in raised :
                        \/ ~UpdateReturns(r.fs, p, old_filename,
                                          relative_shared_path, NoFailure)
                        \/ UpdateReturns(r.fs, p, old_filename,
                                         relative_shared_path, failing[p])}],
                i + 1, F)

\* The first member after position i that the loop of line 163 removes, 0 if none.
NextDuplicateAfter(i) ==
    LET later == {j \in (i + 1)..Len(Group) : Group[j] # Canonical(Group)}
    IN  IF later = {} THEN 0 ELSE CHOOSE j \in later : \A k \in later : j <= k

\* Lines 149-160.  A failure is injected only where the update would have
\* changed the file, elsewhere it is not observable, and a write fails only
\* before the whole content is written.
RewriteReferences ==
    /\ UNCHANGED <<root, shared_dir, unread, call, firmware>>
    /\ pc = "rewrite"
    /\ \E r \in {RewriteFrom([fs |-> fs, rewrote |-> rewrote, rwfailed |-> rwfailed,
                               idle |-> {}], 1, F) :
                    F \in {G \in UpTo({y \in {[i |-> i, file |-> p, fails |-> x] :
                                                  i \in DOMAIN Group, p \in refFiles,
                                                  x \in Failures} :
                                              InScope(Group[y.i], y.file)},
                                      MaxFaults - faults) :
                              \A x, y \in G :
                                  (x.i = y.i /\ x.file = y.file) => x = y}} :
         /\ r.idle = {}
         /\ fs' = r.fs
         /\ rewrote' = r.rewrote
         /\ rwfailed' = r.rwfailed
         /\ stats' = [stats EXCEPT !.references_updated =
                                      @ + Cardinality(r.rewrote \ rewrote)]
         /\ faults' = faults + Cardinality(r.rwfailed \ rwfailed)
    /\ mi' = NextDuplicateAfter(0)
    /\ pc' = IF mi' = 0 THEN "remove_canonical" ELSE "remove"
    /\ UNCHANGED <<run, duplicates, gi, refFiles, fileSize>>
    /\ UNCHANGED <<start, removed, copied, aborted, rmfailed, prev>>

\* os.remove(path) succeeds, and the two counters of lines 167-168 / 175-176.
RemoveSucceeds(path) ==
    /\ Exists(fs, path)
    /\ fs' = [fs EXCEPT ![path] = NoFile]
    /\ stats' = [stats EXCEPT !.bytes_saved = @ + fileSize,
                              !.files_deduplicated = @ + 1]
    /\ removed' = removed \cup {[g |-> gi, path |-> path]}
    /\ UNCHANGED <<faults, rmfailed>>

\* os.remove(path) raises, with the counters incremented before the call.
RemoveRaises_Counted(path) ==
    /\ \/ ~Exists(fs, path) /\ UNCHANGED faults
       \/ Exists(fs, path) /\ faults < MaxFaults /\ faults' = faults + 1
    /\ rmfailed' = rmfailed \cup {[g |-> gi, path |-> path]}
    /\ stats' = [stats EXCEPT !.bytes_saved = @ + fileSize,
                              !.files_deduplicated = @ + 1]
    /\ UNCHANGED <<fs, removed>>

\* os.remove(path) raises OSError: the warning of line 170 / 178.
RemoveRaises(path) ==
    /\ \/ ~Exists(fs, path) /\ UNCHANGED faults
       \/ Exists(fs, path) /\ faults < MaxFaults /\ faults' = faults + 1
    /\ rmfailed' = rmfailed \cup {[g |-> gi, path |-> path]}
    /\ UNCHANGED <<fs, stats, removed>>

\* for duplicate_file in duplicate_paths: the loop moves to its next member.
NextDuplicate ==
    /\ UNCHANGED <<root, shared_dir, unread, call, firmware>>
    /\ mi' = NextDuplicateAfter(mi)
    /\ pc' = IF mi' = 0 THEN "remove_canonical" ELSE "remove"
    /\ UNCHANGED <<run, duplicates, gi, refFiles, fileSize>>
    /\ UNCHANGED <<start, copied, rewrote, aborted, rwfailed, prev>>

\* Lines 163-168: a duplicate other than the canonical file is removed.
RemoveDuplicateOK ==
    /\ pc = "remove"
    /\ RemoveSucceeds(Member)
    /\ NextDuplicate

\* Lines 169-170.
RemoveDuplicateFails ==
    /\ pc = "remove"
    /\ RemoveRaises(Member)
    /\ NextDuplicate

\* After the loop of line 163 the canonical file itself is removed.
AfterCanonical ==
    /\ UNCHANGED <<root, shared_dir, unread, call, firmware>>
    /\ pc' = "processed"
    /\ UNCHANGED <<run, duplicates, gi, mi, refFiles, fileSize>>
    /\ UNCHANGED <<start, copied, rewrote, aborted, rwfailed, prev>>

\* Lines 173-176.
RemoveCanonicalOK ==
    /\ pc = "remove_canonical"
    /\ RemoveSucceeds(Canonical(Group))
    /\ AfterCanonical

\* Lines 177-178.
RemoveCanonicalFails ==
    /\ pc = "remove_canonical"
    /\ RemoveRaises(Canonical(Group))
    /\ AfterCanonical

\* Line 180, and the loop of line 111 goes to the next group.
GroupProcessed ==
    /\ UNCHANGED <<root, shared_dir, unread, call, firmware>>
    /\ pc = "processed"
    /\ stats' = [stats EXCEPT !.files_processed = @ + 1]
    /\ gi' = gi + 1
    /\ pc' = "group"
    /\ UNCHANGED <<fs, run, faults, duplicates, mi, refFiles, fileSize>>
    /\ UNCHANGED ghost

\* The loop of line 111 is over: deduplicate_files returns its statistics.
Finish ==
    /\ UNCHANGED <<root, shared_dir, unread, call, firmware>>
    /\ pc = "group"
    /\ gi > Len(duplicates)
    /\ pc' = "done"
    /\ UNCHANGED <<fs, run, faults, duplicates, gi, mi, refFiles, fileSize, stats>>
    /\ UNCHANGED ghost

\* The script is invoked again on the tree the previous run left.
Rerun ==
    /\ UNCHANGED <<root, shared_dir, call, firmware>>
    /\ unread' = {}
    /\ pc = "done"
    /\ run < MaxRuns
    /\ run' = run + 1
    /\ pc' = "main"
    /\ duplicates' = <<>>
    /\ gi' = 1
    /\ mi' = 0
    /\ refFiles' = {}
    /\ fileSize' = 0
    /\ stats' = ZeroStats
    /\ start' = fs
    /\ prev' = [rmfailed |-> rmfailed, rewrote |-> rewrote, copied |-> copied,
                aborted |-> aborted]
    /\ removed' = {}
    /\ copied' = {}
    /\ rewrote' = {}
    /\ aborted' = {}
    /\ rmfailed' = {}
    /\ rwfailed' = {}
    /\ UNCHANGED <<fs, faults>>

Next ==
    \/ InvalidRoot
    \/ Scan
    \/ SkipGroup
    \/ CopyOK
    \/ CopyFails
    \/ CopySameFile
    \/ RewriteReferences
    \/ RemoveDuplicateOK
    \/ RemoveDuplicateFails
    \/ RemoveCanonicalOK
    \/ RemoveCanonicalFails
    \/ GroupProcessed
    \/ Finish
    \/ Rerun

Spec == Init /\ [][Next]_vars

SpecExcl == InitExcl /\ [][Next]_vars

SpecExt == InitExt /\ [][Next]_vars

(***************************************************************************)
(* update_file_references called on its own, on one file that holds a text.*)
(***************************************************************************)
\* The lexemes of the texts: an attribute keyword in capitals, url, the
\* punctuation of the three patterns, and the old basename in both cases.
Lexemes == {L_HREF, KwUrl, L_eq, L_lp, L_rp, L_sp, L_dq, L_sq, N_acss, L_ACSS}

Texts == UNION {[1..k -> Lexemes] : k \in 0..MaxText}

ThePage == Append(D_t1, N_phtml)

\* relative_shared_path for a member of t1, and for a member of shared/
NewRefs == {get_relative_path(Append(D_t1, N_acss), <<N_shared, N_acss>>),
            get_relative_path(<<N_shared, N_acss>>, <<N_shared, N_acss>>)}

InitUpdate ==
    /\ \E x \in Texts :
          fs = [p \in AllPaths |-> IF p = ThePage THEN [text |-> x] ELSE NoFile]
    /\ pc = "update_file_references"
    /\ run = 1
    /\ faults = 0
    /\ duplicates = <<>>
    /\ gi = 1
    /\ mi = 0
    /\ refFiles = {ThePage}
    /\ fileSize = 0
    /\ stats = ZeroStats
    /\ start = fs
    /\ removed = {}
    /\ copied = {}
    /\ rewrote = {}
    /\ aborted = {}
    /\ rmfailed = {}
    /\ rwfailed = {}
    /\ prev = NoPrev
    /\ unread = {}
    /\ call = NoCall
    /\ firmware = NoFile
    /\ root = "dir"
    /\ shared_dir = FALSE

\* What a call of update_file_references leaves alone.
CallFrame ==
    UNCHANGED <<pc, run, faults, duplicates, gi, mi, refFiles, fileSize, stats,
                start, removed, copied, rewrote, aborted, rmfailed, rwfailed,
                prev, unread, firmware, root, shared_dir>>

\* Lines 86-89: the content changed, the file is written, True is returned.
UpdateWrites ==
    /\ pc = "update_file_references"
    /\ \E new_ref \in NewRefs :
          /\ fs' = update_text(fs, ThePage, N_acss, new_ref)
          /\ fs' # fs
          /\ call' = [old_ref |-> N_acss, new_ref |-> new_ref, returned |-> TRUE]
    /\ CallFrame

\* Line 94: the content did not change, nothing is written, False is returned.
UpdateUnchanged ==
    /\ pc = "update_file_references"
    /\ \E new_ref \in NewRefs :
          /\ update_text(fs, ThePage, N_acss, new_ref) = fs
          /\ call' = [old_ref |-> N_acss, new_ref |-> new_ref, returned |-> FALSE]
    /\ fs' = fs
    /\ CallFrame

NextUpdate ==
    \/ UpdateWrites
    \/ UpdateUnchanged

SpecUpdate == InitUpdate /\ [][NextUpdate]_vars


(***************************************************************************)
(* Properties.                                                             *)
(***************************************************************************)
RemovedPaths == {r.path : r \in removed}

\* Every file with the bytes of p bears p's name: the policy accepts p's group.
SameNameTwins(f, p) ==
    \A q \in Files(f) : f[q] = f[p] => Basename(q) = Basename(p)

\* C1: after one complete run in which no operation failed, two files with
\* the same bytes and the same basename, not excluded, have exactly one
\* surviving copy, at shared/<basename>.  Stated for the trees in which every
\* file with those bytes has that basename.
C1_OneSharedCopy ==
    (pc = "done" /\ run = 1 /\ faults = 0 /\ aborted = {}) =>
        \A a, b \in Files(start) :
            (/\ a # b
             /\ start[a] = start[b]
             /\ Basename(a) = Basename(b)
             /\ ~Excluded(Basename(a))
             /\ SameNameTwins(start, a))
            => {p \in Files(fs) : fs[p] = start[a]} = {<<N_shared, Basename(a)>>}

\* The tree holds no file below shared/.
NoSharedDir(f) == \A p \in Files(f) : Dirname(p) # D_shared

\* C2: after a complete run in which no operation failed, every reference
\* that designated a copy the run removed designates the shared copy, which
\* exists and holds the bytes of the removed copy.  Stated for the trees that
\* hold no shared/ directory before the run.
C2_NoDanglingReference ==
    (pc = "done" /\ run = 1 /\ faults = 0 /\ aborted = {} /\ NoSharedDir(start)) =>
        \A f \in Files(start) \cap Files(fs) :
            \A k \in DOMAIN start[f].toks :
                LET was == Resolve(Dirname(f), start[f].toks[k].ref)
                    now == Resolve(Dirname(f), fs[f].toks[k].ref)
                IN  (was \in RemovedPaths /\ Dirname(was) # D_shared) =>
                        /\ now = <<N_shared, Basename(was)>>
                        /\ Exists(fs, now)
                        /\ fs[now] = start[was]

\* C3: every reference the run rewrote is relative to the directory of the
\* file that holds it and designates shared/<basename> from there.
C3_ReferenceIntegrity ==
    \A e \in rewrote :
        Resolve(Dirname(e.file), e.new) = <<N_shared, Basename(e.member)>>

\* C4: whenever a member of a group has been deleted, the group's shared
\* file exists and holds the bytes of its canonical member.
C4_SharedCopyBeforeDeletion ==
    \A r \in removed :
        \E c \in copied :
            /\ c.g = r.g
            /\ Exists(fs, c.shared)
            /\ fs[c.shared] = c.content

\* C5: a member's pass rewrites only files of the member's own directory.
C5_RewriteScoping ==
    \A e \in rewrote : Dirname(e.file) = Dirname(e.member)

\* C6: a second run on the tree of a complete first run changes no file and
\* counts nothing.  Stated for first runs without failure that gave up no group.
C6_Idempotent ==
    (run = 2 /\ faults = 0 /\ prev.aborted = {}) =>
        /\ fs = start
        /\ stats.files_deduplicated = 0
        /\ stats.references_updated = 0

\* The members a finished run left in place beside the shared copy made for them.
Leftovers(log) ==
    {x \in log.rmfailed : x.path # <<N_shared, Basename(x.path)>>
                          /\ \E c \in log.copied : c.g = x.g}

\* C7: a second run on a tree where a member was left beside its shared copy
\* neither deletes nor alters that shared copy, and every reference the first
\* run rewrote still designates an existing file.
C7_SafeToReinvoke ==
    run = 2 =>
        /\ \A x \in Leftovers(prev) :
              fs[<<N_shared, Basename(x.path)>>] = start[<<N_shared, Basename(x.path)>>]
        /\ (Leftovers(prev) # {}) =>
              \A e \in prev.rewrote :
                  LET to == Resolve(Dirname(e.file), e.new)
                  IN  (to \in AllPaths /\ Exists(start, to)) => Exists(fs, to)

\* C8: when the copy to shared/ fails, the group alone is given up: the step
\* deletes and modifies no member of the group and changes no counter and no
\* reference, the loop is at the next group, and nothing is ever rewritten or
\* removed for the group.
C8_CopyFailureStep ==
    (gi \in aborted' /\ gi \notin aborted) =>
        /\ \A i \in DOMAIN Group : fs'[Group[i]] = fs[Group[i]]
        /\ stats' = stats
        /\ rewrote' = rewrote /\ removed' = removed
        /\ pc' = "group" /\ gi' = gi + 1 /\ duplicates' = duplicates

C8_AbortedUntouched ==
    \A g \in aborted :
        /\ \A r \in removed : r.g # g
        /\ \A e \in rewrote : e.g # g
        /\ \A c \in copied : c.g # g
        /\ g < gi

C8_CopyFailureAbortsOnlyGroup == []C8_AbortedUntouched /\ [][C8_CopyFailureStep]_vars

\* C9: when a rewrite fails while a group is processed, no member of that
\* group is deleted.  Stated for the trees that hold no shared/ directory
\* before the run.
C9_RewriteFailureAbortsGroup ==
    (run = 1 /\ NoSharedDir(start)) =>
        \A e \in rwfailed : \A r \in removed : r.g # e.g

\* C10: when the deletion of a member fails, no file changes (the shared copy
\* stays), the two counters of removals are not incremented, the loop goes on
\* to the next member or, after the canonical file, to the end of the group,
\* from where the run goes to the next group; of a group that was processed
\* every member's deletion was attempted.
C10_RemovalFailureStep ==
    (rmfailed' \ rmfailed # {}) =>
        /\ fs' = fs
        /\ stats'.bytes_saved = stats.bytes_saved
        /\ stats'.files_deduplicated = stats.files_deduplicated
        /\ copied' = copied
        /\ IF pc = "remove"
           THEN /\ gi' = gi
                /\ mi' = NextDuplicateAfter(mi)
                /\ pc' = IF mi' = 0 THEN "remove_canonical" ELSE "remove"
           ELSE gi' = gi /\ pc' = "processed"

C10_AllAttempted ==
    \A g \in DOMAIN duplicates :
        (g < gi /\ Accepted(duplicates[g]) /\ g \notin aborted) =>
            \A i \in DOMAIN duplicates[g] :
                [g |-> g, path |-> duplicates[g][i]] \in removed \cup rmfailed

C10_NextGroup ==
    pc = "processed" => (gi' = gi + 1 /\ pc' = "group" /\ fs' = fs)

C10_RemovalFailureContinues ==
    []C10_AllAttempted /\ [][C10_RemovalFailureStep /\ C10_NextGroup]_vars

\* The deletion of a duplicate failed, the canonical file of the group was
\* removed after it, the shared copy is there and a later group was processed.
C10_Witness ==
    \E x \in rmfailed : \E r, later \in removed :
        /\ r.g = x.g
        /\ x.path # Canonical(duplicates[x.g])
        /\ x.path # <<N_shared, Basename(x.path)>>
        /\ r.path = Canonical(duplicates[x.g])
        /\ Exists(fs, <<N_shared, Basename(x.path)>>)
        /\ Exists(fs, x.path)
        /\ later.g > x.g

RECURSIVE SumOver(_, _)
\* The sum of f[x] over the elements x of S.
SumOver(S, f) ==
    IF S = {} THEN 0
    ELSE LET x == CHOOSE y \in S : TRUE
         IN  f[x] + SumOver(S \ {x}, f)

\* The size of the files of group g as the scan of the run found them.
GroupSize(g) == Size(start[Canonical(duplicates[g])])

\* C11: at the end of a run files_deduplicated is the number of members the
\* run removed, and bytes_saved is the sum over the removed members of the
\* size of their group's files.
C11_StatsAccounting ==
    pc = "done" =>
        /\ stats.files_deduplicated = Cardinality(removed)
        /\ stats.bytes_saved = SumOver(removed, [r \in removed |-> GroupSize(r.g)])

\* The groups of the run that the canonicalization policy accepts.
AcceptedGroups == {g \in DOMAIN duplicates : Accepted(duplicates[g])}

\* C12: at the end of a run files_processed is the number of the groups the
\* policy accepted, whatever became of their copy and of their deletions.
C12_FilesProcessed ==
    pc = "done" => stats.files_processed = Cardinality(AcceptedGroups)

\* The paths of a group.
Members(paths) == {paths[i] : i \in DOMAIN paths}

\* C13: two files that the scan found with the same bytes and that bear
\* different basenames are not deduplicated: their group is rejected, none
\* of the two is removed, nothing is copied to shared/ for their group, and
\* both hold the bytes they held when the run started.
C13_DifferingNamesUntouched ==
    \A g \in DOMAIN duplicates :
        \A a, b \in Members(duplicates[g]) :
            Basename(a) # Basename(b) =>
                /\ ~Accepted(duplicates[g])
                /\ \A r \in removed : r.path \notin {a, b}
                /\ \A c \in copied : c.g # g
                /\ fs[a] = start[a] /\ fs[b] = start[b]

\* The groups of one basename that holds a pattern of the exclusion list.
ExcludedGroups ==
    {g \in DOMAIN duplicates :
        ~NamesDiffer(duplicates[g]) /\ Excluded(Basename(duplicates[g][1]))}

\* Nothing is done for an excluded group: no copy, no removal, every member
\* is in the tree, and shared/<basename> is there only if it was at the start.
C14_ExcludedKept ==
    \A g \in ExcludedGroups :
        /\ \A c \in copied : c.g # g
        /\ \A r \in removed : r.g # g
        /\ \A p \in Members(duplicates[g]) : Exists(fs, p)
        /\ Exists(fs, SharedFile(duplicates[g])) => Exists(start, SharedFile(duplicates[g]))

\* The loop passes over an excluded group without counting it.
C14_ExcludedStep ==
    (pc = "group" /\ gi \in ExcludedGroups) =>
        (stats' = stats /\ fs' = fs /\ gi' = gi + 1 /\ pc' = "group")

\* C14: a duplicate group whose basename holds a pattern of the exclusion
\* list is never merged: no file is created for it below shared/, its
\* members stay in the tree, and files_processed does not count it.
C14_ExclusionList == []C14_ExcludedKept /\ [][C14_ExcludedStep]_vars

\* A run that ended with an excluded group of a name that holds a pattern
\* only once lowered, and with another group processed.
C14_Witness ==
    /\ pc = "done"
    /\ stats.files_processed > 0
    /\ \E g \in ExcludedGroups : Basename(duplicates[g][1]) = N_Searchjs

\* C15: two groups of a run never share their file below shared/: a copy
\* made for one group is not written over by the copy made for another,
\* and at the end of the run the file holds the bytes copied for its group.
C15_OneSharedFilePerGroup ==
    /\ \A c, d \in copied : c.g # d.g => c.shared # d.shared
    /\ (pc = "done" /\ faults = 0) =>
           \A c \in copied : Exists(fs, c.shared) => fs[c.shared] = c.content

\* The name of the file ends in .html, .css or .js.
EndsInHtmlCssJs(p) ==
    \/ EndsWith(Basename(p), E_html)
    \/ EndsWith(Basename(p), E_css)
    \/ EndsWith(Basename(p), E_js)

\* The files listed for rewriting, and the files rewritten, bear such a name.
C16_ListedTextual ==
    /\ \A p \in refFiles : EndsInHtmlCssJs(p)
    /\ \A e \in rewrote : EndsInHtmlCssJs(e.file)

\* The rewriting of references leaves the files of other names as they are.
C16_RewriteStep ==
    pc = "rewrite" => \A p \in AllPaths : ~EndsInHtmlCssJs(p) => fs'[p] = fs[p]

\* C16: only the files whose name ends in .html, .css or .js are given to
\* update_file_references, and the rewriting of references never changes a
\* file of another name, member of a duplicate group or not.
C16_OnlyTextualRewritten == []C16_ListedTextual /\ [][C16_RewriteStep]_vars

\* t1/a.css was deduplicated, t1/p.html was rewritten for it, and t1/n.txt,
\* which holds the same reference, is in the tree as it was.
C16_Witness ==
    /\ pc = "done"
    /\ \E r \in removed : r.path = Append(D_t1, N_acss)
    /\ \E e \in rewrote : e.file = Append(D_t1, N_phtml)
    /\ start[Append(D_t1, N_ntxt)] = H_bare
    /\ fs[Append(D_t1, N_ntxt)] = H_bare

\* Nothing has been scanned, made, copied, rewritten or removed.
Untouched ==
    /\ fs = start
    /\ duplicates = <<>>
    /\ ~shared_dir
    /\ removed = {} /\ copied = {} /\ rewrote = {} /\ rmfailed = {} /\ rwfailed = {}
    /\ stats = ZeroStats /\ faults = 0

C17_NothingDone == root # "dir" => (pc \in {"main", "exit1"} /\ Untouched)

C17_ExitStep == (root # "dir" /\ pc = "main") => pc' = "exit1"

\* C17: when deploy_dir is not an existing directory, main exits with
\* status 1 as its first step and nothing is scanned, made, rewritten or
\* removed.
C17_InvalidRootExits == []C17_NothingDone /\ [][C17_ExitStep]_vars

\* main has exited with status 1 on a deploy_dir that is a regular file.
C17_Witness == pc = "exit1" /\ root = "file"

\* A file whose read failed is in no group, and nothing is copied, rewritten
\* or removed on its behalf.
C18_UnreadExcluded ==
    \A p \in unread :
        /\ \A g \in DOMAIN duplicates : p \notin Members(duplicates[g])
        /\ \A r \in removed : r.path # p
        /\ \A e \in rewrote : e.member # p
        /\ \A x \in rmfailed : x.path # p

\* Once the scan is over, two files that were read and hold the same bytes
\* are members of one group.
C18_OthersIndexed ==
    pc \notin {"main", "exit1"} =>
        \A p, q \in Files(start) \ unread :
            (p # q /\ start[p] = start[q]) =>
                \E g \in DOMAIN duplicates : {p, q} \subseteq Members(duplicates[g])

\* The scan in which a read fails ends like any other: the run goes on to
\* the groups, or to its end when there is none.
C18_ScanStep ==
    (pc = "main" /\ unread' # {}) =>
        pc' = (IF duplicates' = <<>> THEN "done" ELSE "group")

\* C18: a file whose read fails while it is hashed is left out of the
\* index: it is in no group and the run neither removes it nor rewrites a
\* reference for it; the other files are indexed and the run goes on.
C18_UnreadableExcluded ==
    [](C18_UnreadExcluded /\ C18_OthersIndexed) /\ [][C18_ScanStep]_vars

\* A run has ended in which a read failed, the unread file is in the tree
\* and two files with its bytes were deduplicated.
C18_Witness ==
    /\ pc = "done"
    /\ \E p \in unread :
          /\ Exists(fs, p)
          /\ \E r1, r2 \in removed :
                r1.path # r2.path /\ start[r1.path] = start[p] /\ start[r2.path] = start[p]

(***************************************************************************)
(* lpcvtcksum: the vector table checksum of a firmware image.  A number is *)
(* a little-endian sequence of bytes; a word is four of them.              *)
(***************************************************************************)
Byte == 256
WordBytes == 4
Vectors == 8
MinSize == 32
PadTo == 4096

\* A 32-bit word in five bytes, the width the sum of seven words needs.
Wide(w) == w \o <<0>>

RECURSIVE AddFrom(_, _, _, _)
\* a + b from byte i on, with the carry that came in; numbers of equal width
AddFrom(a, b, i, carry) ==
    IF i > Len(a) THEN <<>>
    ELSE LET t == a[i] + b[i] + carry
         IN  <<t % Byte>> \o AddFrom(a, b, i + 1, t \div Byte)

Add(a, b) == AddFrom(a, b, 1, 0)

RECURSIVE SumWords(_)
\* the sum of the words of a sequence
SumWords(ws) ==
    IF ws = <<>> THEN Wide(<<0, 0, 0, 0>>)
    ELSE Add(Wide(ws[1]), SumWords(Tail(ws)))

\* 0xffffffff & x
And32(x) == [i \in DOMAIN x |-> IF i <= WordBytes THEN x[i] ELSE 0]

\* 0xffffffff ^ x
Xor32(x) == [i \in DOMAIN x |-> IF i <= WordBytes THEN (Byte - 1) - x[i] ELSE x[i]]

\* the value reduced to 32 bits, as one word
Low32(x) == SubSeq(x, 1, WordBytes)

\* 1 + (0xffffffff ^ (0xffffffff & sum)) without the one
checksum_OnesComplement(vectors) ==
    Low32(Xor32(And32(SumWords(SubSeq(vectors, 1, Vectors - 1)))))

\* 1 + (0xffffffff ^ (0xffffffff & sum)), reduced to 32 bits
checksum(vectors) ==
    Low32(Add(Wide(<<1, 0, 0, 0>>),
              Xor32(And32(SumWords(SubSeq(vectors, 1, Vectors - 1))))))

\* The words the images start with.
W_zero == <<0, 0, 0, 0>>
W_one == <<1, 0, 0, 0>>
W_max == <<255, 255, 255, 255>>
W_stack == <<0, 4, 0, 32>>
WordValues == {W_zero, W_one, W_max, W_stack}

\* An image: its leading words and the number of bytes that follow them.
Image(ws, rest) == [vectors |-> ws, rest |-> rest]

ImageSize(f) == WordBytes * Len(f.vectors) + f.rest

Images ==
    {Image(ws, 0) : ws \in {v \in [1..Vectors -> WordValues] :
                                v[Vectors] \in {W_zero, W_max}}}
    \cup {Image(ws, 100) : ws \in [1..Vectors -> {W_one, W_max}]}
    \cup {Image(ws, 0) : ws \in [1..(Vectors - 1) -> {W_zero, W_max}]}

\* The size padded up to the next multiple of 4096.
Padded(n) == ((n + PadTo - 1) \div PadTo) * PadTo

InitCksum ==
    /\ firmware \in Images \cup {NoFile}
    /\ start = firmware
    /\ pc = "lpcvtcksum"
    /\ fs = [p \in AllPaths |-> NoFile]
    /\ run = 1
    /\ faults = 0
    /\ duplicates = <<>>
    /\ gi = 1
    /\ mi = 0
    /\ refFiles = {}
    /\ fileSize = 0
    /\ stats = ZeroStats
    /\ removed = {}
    /\ copied = {}
    /\ rewrote = {}
    /\ aborted = {}
    /\ rmfailed = {}
    /\ rwfailed = {}
    /\ prev = NoPrev
    /\ unread = {}
    /\ call = NoCall
    /\ root = "file"
    /\ shared_dir = FALSE

\* What lpcvtcksum leaves alone.
CksumFrame ==
    UNCHANGED <<fs, run, duplicates, gi, mi, refFiles, fileSize, stats,
                start, removed, copied, rewrote, aborted, rmfailed, rwfailed,
                prev, unread, call, root, shared_dir>>

\* The file does not exist: an error message, exit status 1.
CksumNotFound ==
    /\ pc = "lpcvtcksum"
    /\ firmware = NoFile
    /\ pc' = "exit1"
    /\ UNCHANGED <<firmware, faults>>
    /\ CksumFrame

\* The file is shorter than the vector table: an error message, exit status 1.
CksumTooSmall ==
    /\ pc = "lpcvtcksum"
    /\ firmware # NoFile
    /\ ImageSize(firmware) < MinSize
    /\ pc' = "exit1"
    /\ UNCHANGED <<firmware, faults>>
    /\ CksumFrame

\* The image with its eighth word patched and its size padded.
Patched(f) ==
    [vectors |-> [f.vectors EXCEPT ![Vectors] = checksum(f.vectors)],
     rest |-> Padded(ImageSize(f)) - WordBytes * Vectors]

\* The eighth word becomes the checksum, the file is padded, exit status 0.
CksumPatch ==
    /\ pc = "lpcvtcksum"
    /\ firmware # NoFile
    /\ ImageSize(firmware) >= MinSize
    /\ firmware' = Patched(firmware)
    /\ pc' = "done"
    /\ UNCHANGED faults
    /\ CksumFrame

\* The file cannot be opened or read (a file without the permission): an
\* error message, exit status 1, the file as it was.
CksumOpenFails ==
    /\ pc = "lpcvtcksum"
    /\ firmware # NoFile
    /\ faults < MaxFaults
    /\ faults' = faults + 1
    /\ pc' = "exit1"
    /\ UNCHANGED firmware
    /\ CksumFrame

\* What a write that raises can leave of the file: the file as it was, an
\* empty file, the patched vector table alone, or the patched vector table
\* before the bytes the file had, without the padding.
PartlyPatched(f) ==
    {f,
     Image(<<>>, 0),
     Image(Patched(f).vectors, 0),
     Image(Patched(f).vectors, f.rest)}

\* The file cannot be written: an error message, exit status 1.
CksumWriteFails ==
    /\ pc = "lpcvtcksum"
    /\ firmware # NoFile
    /\ ImageSize(firmware) >= MinSize
    /\ faults < MaxFaults
    /\ faults' = faults + 1
    /\ firmware' \in PartlyPatched(firmware)
    /\ pc' = "exit1"
    /\ CksumFrame

\* lpcvtcksum is run again on the file it patched.
CksumAgain ==
    /\ pc = "done"
    /\ run < MaxRuns
    /\ pc' = "lpcvtcksum"
    /\ run' = run + 1
    /\ UNCHANGED <<firmware, fs, faults, duplicates, gi, mi, refFiles, fileSize,
                   stats, start, removed, copied, rewrote, aborted, rmfailed,
                   rwfailed, prev, unread, call, root, shared_dir>>

NextCksum ==
    \/ CksumNotFound
    \/ CksumTooSmall
    \/ CksumPatch
    \/ CksumOpenFails
    \/ CksumWriteFails
    \/ CksumAgain

SpecCksum == InitCksum /\ [][NextCksum]_vars

\* The call that follows a call of the same arguments.
SecondApplication ==
    /\ call # NoCall
    /\ call' # NoCall
    /\ call'.old_ref = call.old_ref
    /\ call'.new_ref = call.new_ref

\* C19: update_file_references returns True exactly when it changed the
\* file, and applied a second time with the same arguments it returns False
\* and leaves the file as the first application left it.
C19_UpdateIdempotent ==
    [][/\ call' # NoCall => (call'.returned <=> fs' # fs)
       /\ SecondApplication => (fs' = fs /\ ~call'.returned)]_vars

TextOf(f) == f[ThePage].text

\* Only lexemes that are the old basename, letter for letter, are replaced.
C20_CaseStep ==
    \A i \in 1..Len(TextOf(fs)) :
        TextOf(fs')[i] # TextOf(fs)[i] => TextOf(fs)[i] = call'.old_ref

\* The quote characters of the text stay where and what they were.
C20_QuoteStep ==
    /\ Len(TextOf(fs')) = Len(TextOf(fs))
    /\ \A i \in 1..Len(TextOf(fs)) :
          TextOf(fs)[i] \in QuoteLexemes => TextOf(fs')[i] = TextOf(fs)[i]

\* C20: a call of update_file_references rewrites no token whose filename
\* differs from the old basename in letter case, and keeps the opening and
\* closing quote characters of every token it rewrites.
C20_KeywordOnlyCaseInsensitive ==
    [][call' # NoCall => (C20_CaseStep /\ C20_QuoteStep)]_vars

\* The eighth word is the negation modulo 2^32 of the sum of the first seven.
C21_Negation ==
    Low32(Add(SumWords(SubSeq(firmware.vectors, 1, Vectors - 1)),
              Wide(firmware.vectors[Vectors]))) = W_zero

\* C21: after lpcvtcksum has run on a file of at least 32 bytes, the eighth
\* word is the two's-complement negation modulo 2^32 of the sum of the first
\* seven words (0 when that sum is 0 modulo 2^32), and the first seven words
\* are the ones the file had.
C21_VectorChecksum ==
    (pc = "done" /\ firmware # NoFile) =>
        /\ C21_Negation
        /\ SubSeq(firmware.vectors, 1, Vectors - 1) = SubSeq(start.vectors, 1, Vectors - 1)
        /\ (Low32(SumWords(SubSeq(start.vectors, 1, Vectors - 1))) = W_zero
              => firmware.vectors[Vectors] = W_zero)

\* A patched image whose seven words sum to a non-zero multiple of 2^32.
C21_Witness ==
    /\ pc = "done"
    /\ firmware # NoFile
    /\ firmware.vectors[Vectors] = W_zero
    /\ start.vectors[Vectors] # W_zero
    /\ \E i \in 1..(Vectors - 1) : start.vectors[i] = W_max

\* The readable files of the scan that ended in the step.
Readable == Files(fs) \ unread'

\* Every readable file is in at most one bucket, once; a bucket holds all
\* the readable files of one digest and only them; the buckets returned are
\* the ones of two files or more.
C22_Buckets ==
    /\ \A g \in DOMAIN duplicates' :
          /\ Len(duplicates'[g]) >= 2
          /\ \A i, j \in DOMAIN duplicates'[g] :
                i # j => duplicates'[g][i] # duplicates'[g][j]
          /\ \E p \in Readable :
                Members(duplicates'[g]) = {q \in Readable : fs[q] = fs[p]}
    /\ \A g, h \in DOMAIN duplicates' :
          g # h => Members(duplicates'[g]) \cap Members(duplicates'[h]) = {}
    /\ \A p, q \in Readable :
          (p # q /\ fs[p] = fs[q]) =>
              \E g \in DOMAIN duplicates' : p \in Members(duplicates'[g])

\* The buckets are in the order of one walk of the tree.
C22_ScanOrder ==
    \E o \in WalkOrders(fs) :
        \A g \in DOMAIN duplicates' :
            duplicates'[g] = SelectSeq(o, LAMBDA p : p \in Members(duplicates'[g]))

\* A step on an accepted group out of the head of the loop writes nowhere
\* but to shared/<basename of the first member>, and when the copy went
\* through, that file holds the bytes of the first member.
C22_CopyStep ==
    LET first == duplicates[gi][1]
        shared_file == <<N_shared, first[Len(first)]>>
    IN  /\ \A p \in AllPaths \ {shared_file} : fs'[p] = fs[p]
        /\ pc' = "rewrite" => fs'[shared_file] = fs[first]

\* C22: find_duplicate_files puts every readable file in exactly one digest
\* bucket, keeps each bucket in scan order and returns exactly the buckets
\* of two members or more; deduplicate_files takes the first member of an
\* accepted group as canonical and copies it to shared/<basename>.
C22_BucketsAndCanonical ==
    [][/\ (pc = "main" /\ pc' \in {"group", "done"}) => (C22_Buckets /\ C22_ScanOrder)
       /\ (pc = "group" /\ gi <= Len(duplicates) /\ Accepted(duplicates[gi])
             /\ <<pc, gi>>' # <<pc, gi>>)
            => C22_CopyStep]_vars

\* The scan returned two groups and the copy of the second went through.
C22_Witness ==
    /\ pc = "rewrite"
    /\ Len(duplicates) = 2
    /\ gi = 2
    /\ fs[<<N_shared, Basename(duplicates[2][1])>>] = fs[duplicates[2][1]]

\* The files whose references the run rewrote.
RewrittenFiles == {e.file : e \in rewrote}

\* C23: no content is lost by a run in which no operation failed: the bytes
\* of every file of the starting tree, the files whose references the run
\* rewrote aside, are the bytes of a file of the tree at the end of the run,
\* and every file that was below shared/ at the start is still there.
C23_NoContentLost ==
    (pc = "done" /\ faults = 0) =>
        /\ \A p \in Files(start) \ RewrittenFiles :
              \E q \in Files(fs) : fs[q] = start[p]
        /\ \A p \in Files(start) : Dirname(p) = D_shared => Exists(fs, p)

\* C24: a member that deduplicate_files deletes holds, at the moment of its
\* deletion, the bytes of the file at shared/<basename>: the digests of the
\* scan still describe the members when their group is processed.  Stated
\* for the trees that hold no shared/ directory before the run and the
\* runs in which no operation failed.
C24_DeletedEqualsShared ==
    [][(NoSharedDir(start) /\ faults' = 0) => \A r \in removed' \ removed :
          /\ Exists(fs, <<N_shared, Basename(r.path)>>)
          /\ fs[r.path] = fs[<<N_shared, Basename(r.path)>>]]_vars

====
